---- MODULE Spec2Model ----
(***************************************************************************)
(* A model of the `chapters` crate (rssblue/chapters): the canonical       *)
(* Chapter value and the codecs that read and write it                     *)
(*   - from_json / to_json            (Podcast namespace JSON chapters)    *)
(*   - from_description / to_description (timestamps in show notes)        *)
(* The codecs are pure functions.  The state machine is an application    *)
(* that calls them: each action is one call, and records its argument and *)
(* its return value.                                                       *)
(*                                                                         *)
(* Text is modelled as a sequence of one-character strings, a JSON        *)
(* document as its parsed tree with number tokens kept as decimal         *)
(* literals, and an f64 as sign, 53-bit significand and binary exponent,  *)
(* with IEEE-754 round-to-nearest-even arithmetic.                        *)
(***************************************************************************)
EXTENDS Integers, Sequences, FiniteSets, TLC

\* Option<T>: None is the empty sequence, Some(x) the one-element sequence
None == <<>>
Some(x) == <<x>>
IsSome(o) == o # <<>>
Unwrap(o) == o[1]

\* Result<T, String>: the error message is not modelled
Ok(v) == [ok |-> TRUE, val |-> v]
Err == [ok |-> FALSE, val |-> <<>>]

(***************************************************************************)
(* Unbounded naturals.  TLC's integers are 32 bits wide and an f64        *)
(* significand has 53 bits, so significands are little-endian sequences   *)
(* of 16-bit limbs.  The arithmetic is written as functions, which are    *)
(* applied to values: every argument is evaluated once.                   *)
(***************************************************************************)
LimbBase == 2^16
Big == Seq(Nat)

BigNorm[a \in Big] ==
    IF a = <<>> THEN <<>>
    ELSE IF a[Len(a)] = 0 THEN BigNorm[SubSeq(a, 1, Len(a) - 1)]
    ELSE a

BigFromNat[n \in Nat] ==
    IF n = 0 THEN <<>> ELSE <<n % LimbBase>> \o BigFromNat[n \div LimbBase]

BigToNat[a \in Big] ==
    IF a = <<>> THEN 0 ELSE Head(a) + LimbBase * BigToNat[Tail(a)]

BigMulCarry[a \in Big, c \in Nat, carry \in Nat] ==
    IF a = <<>> THEN BigFromNat[carry]
    ELSE <<(Head(a) * c + carry) % LimbBase>>
         \o BigMulCarry[Tail(a), c, (Head(a) * c + carry) \div LimbBase]

\* a * c for a small factor c (c < 2^14)
BigMulSmall[a \in Big, c \in Nat] == BigNorm[BigMulCarry[a, c, 0]]

QuotientRemainder == [q : Big, r : Nat]

\* quotient and remainder of a by a small divisor d (d < 2^14), by long
\* division from the most significant limb down
BigDivSmall[a \in Big, d \in Nat] ==
    IF a = <<>> THEN [q |-> <<>>, r |-> 0]
    ELSE LET hi == BigDivSmall[Tail(a), d]
         IN  [q |-> BigNorm[<<(hi.r * LimbBase + Head(a)) \div d>> \o hi.q],
              r |-> (hi.r * LimbBase + Head(a)) % d]

NatBitLen[n \in Nat] == IF n = 0 THEN 0 ELSE 1 + NatBitLen[n \div 2]

BigBitLenNormal[b \in Big] ==
    IF b = <<>> THEN 0 ELSE 16 * (Len(b) - 1) + NatBitLen[b[Len(b)]]
BigBitLen[a \in Big] == BigBitLenNormal[BigNorm[a]]

BigIsOdd[a \in Big] == a # <<>> /\ Head(a) % 2 = 1

BigIncr[a \in Big] ==
    IF a = <<>> THEN <<1>>
    ELSE IF Head(a) + 1 < LimbBase THEN <<Head(a) + 1>> \o Tail(a)
    ELSE <<0>> \o BigIncr[Tail(a)]

\* shifts go at most 14 bits (a small factor) at a time
ShiftStep[s \in Nat] == IF s > 14 THEN 14 ELSE s

BigShl[a \in Big, s \in Nat] ==
    IF s = 0 THEN BigNorm[a]
    ELSE BigShl[BigMulSmall[a, 2^ShiftStep[s]], s - ShiftStep[s]]

BigShr[a \in Big, s \in Nat] ==
    IF s = 0 THEN BigNorm[a]
    ELSE BigShr[BigDivSmall[a, 2^ShiftStep[s]].q, s - ShiftStep[s]]

\* the low s bits of a are all zero
BigLowBitsZero[a \in Big, s \in Nat] ==
    IF s = 0 \/ a = <<>> THEN TRUE
    ELSE IF s >= 16 THEN Head(a) = 0 /\ BigLowBitsZero[Tail(a), s - 16]
    ELSE Head(a) % 2^s = 0

\* half.q + half.r / 2 (+ a smaller fraction unless exact) rounded to the
\* nearest integer, ties to even
BigRoundHalfEven[half \in QuotientRemainder, exact \in BOOLEAN] ==
    IF half.r = 1 /\ (~exact \/ BigIsOdd[half.q]) THEN BigIncr[half.q] ELSE half.q

\* a / 2^s rounded to the nearest integer, ties to even: round up when the
\* bit below the cut is set and either a lower bit or the quotient's last is
BigShrRoundEven[a \in Big, s \in Nat] ==
    IF s = 0 THEN BigNorm[a]
    ELSE BigRoundHalfEven[BigDivSmall[BigShr[a, s - 1], 2], BigLowBitsZero[a, s - 1]]

(***************************************************************************)
(* f64: [neg, m, e] is (-1)^neg * m * 2^e with m = 0 or 2^52 <= m < 2^53. *)
(* The values the codecs meet are far from the subnormal and the infinite *)
(* range, which are not modelled.                                          *)
(***************************************************************************)
F64Bits == 53
F64 == [neg : BOOLEAN, m : Big, e : Int]

F64Zero[neg \in BOOLEAN] == [neg |-> neg, m |-> <<>>, e |-> 0]

\* m * 2^e for a natural m of len bits, rounded to 53 bits (ties to even)
\* and normalised
\* a rounded significand of 53 bits, or of 54 when the rounding carried
F64Carry[neg \in BOOLEAN, m \in Big, e \in Int] ==
    IF BigBitLen[m] > F64Bits
    THEN [neg |-> neg, m |-> BigShr[m, 1], e |-> e + 1]
    ELSE [neg |-> neg, m |-> m, e |-> e]

F64RoundLen[neg \in BOOLEAN, m \in Big, e \in Int, len \in Nat] ==
    IF len = 0 THEN F64Zero[neg]
    ELSE IF len <= F64Bits
         THEN [neg |-> neg, m |-> BigShl[m, F64Bits - len], e |-> e - (F64Bits - len)]
    ELSE F64Carry[neg, BigShrRoundEven[m, len - F64Bits], e + (len - F64Bits)]
F64Round[neg \in BOOLEAN, m \in Big, e \in Int] ==
    F64RoundLen[neg, m, e, BigBitLen[m]]

\* `n as f64` for an integer n (exact: |n| < 2^53)
F64FromInt[n \in Int] == F64Round[n < 0, BigFromNat[IF n < 0 THEN -n ELSE n], 0]

\* the s for which floor(m * 2^s / d) has 55 bits (m >= 2^52 > d, so the
\* quotient's length grows by exactly one bit per doubling)
F64DivShift[m \in Big, d \in Nat] == F64Bits + 2 - BigBitLen[BigDivSmall[m, d].q]

\* m * 2^(e - 1) for the quotient q with two guard bits and a sticky bit: a
\* remainder that is not zero is folded into one extra low bit
F64Sticky[neg \in BOOLEAN, qr \in QuotientRemainder, e \in Int] ==
    F64Round[neg, BigNorm[BigMulCarry[qr.q, 2, IF qr.r = 0 THEN 0 ELSE 1]], e - 1]

\* x / d for an f64 x and a small integer d that is exact in f64, rounded once
F64DivShifted[x \in F64, d \in Nat, s \in Nat] ==
    F64Sticky[x.neg, BigDivSmall[BigShl[x.m, s], d], x.e - s]
F64DivInt[x \in F64, d \in Nat] ==
    IF x.m = <<>> THEN x ELSE F64DivShifted[x, d, F64DivShift[x.m, d]]

\* x * c for an f64 x and a small integer c that is exact in f64
F64MulInt[x \in F64, c \in Nat] == F64Round[x.neg, BigMulSmall[x.m, c], x.e]

\* f64::fract() == 0.0
F64IsIntegral[x \in F64] ==
    \/ x.m = <<>>
    \/ x.e >= 0
    \/ (-x.e < F64Bits /\ BigLowBitsZero[x.m, -x.e])

\* the integer part of |x| (|x| < 2^31 here)
F64Magnitude[x \in F64] ==
    IF x.m = <<>> THEN 0
    ELSE IF x.e >= 0 THEN BigToNat[BigShl[x.m, x.e]]
    ELSE IF -x.e >= F64Bits + 1 THEN 0
    ELSE BigToNat[BigShr[x.m, -x.e]]

\* `x as i64`: truncation toward zero (it never saturates here)
F64ToInt[x \in F64] == IF x.neg THEN -F64Magnitude[x] ELSE F64Magnitude[x]

(***************************************************************************)
(* JSON.  A document is its tree: [t |-> "obj", f |-> key -> value],      *)
(* [t |-> "arr", a |-> <<...>>], [t |-> "str", s |-> ...], a number       *)
(* token, [t |-> "bool", b |-> ...], [t |-> "null"]; bytes that are not   *)
(* JSON at all are [t |-> "malformed"].  A number token [t |-> "num",     *)
(* neg, n, k] is the literal with digits n and k digits after the         *)
(* decimal point (k = 0: no decimal point).                                *)
(***************************************************************************)
JNull == [t |-> "null"]
JStr(s) == [t |-> "str", s |-> s]
JBool(b) == [t |-> "bool", b |-> b]
JNum(neg, n, k) == [t |-> "num", neg |-> neg, n |-> n, k |-> k]
JArr(a) == [t |-> "arr", a |-> a]
JObj(f) == [t |-> "obj", f |-> f]
JMalformed == [t |-> "malformed"]
JNumbers == [t : {"num"}, neg : BOOLEAN, n : Nat, k : Nat]

NoFields == [key \in {} |-> JNull]
Has(obj, key) == key \in DOMAIN obj.f
\* a key that is written only when `present`
Field(present, key, value) == IF present THEN key :> value ELSE NoFields

\* serde_json reads a number as f64: an integer literal is converted, a
\* decimal literal is its digits divided by the power of ten
F64DivPowerOfTen[x \in F64, k \in Nat] == IF k = 0 THEN x ELSE F64DivInt[x, 10^k]
JNumToF64[tok \in JNumbers] ==
    [F64DivPowerOfTen[F64FromInt[tok.n], tok.k] EXCEPT !.neg = tok.neg]

\* the integers next to |x| * 10^k (x.e < 0: x is not an integer), given
\* scaled = x.m * 10^k: the nearest one first, then the floor and the ceiling
DecimalCandidates[scaled \in Big, s \in Nat] ==
    <<BigToNat[BigShrRoundEven[scaled, s]],
      BigToNat[BigShr[scaled, s]],
      BigToNat[BigIncr[BigShr[scaled, s]]]>>

\* which of the digits have, with k decimals, a literal that reads back as x
ReadBackAs[digits \in Seq(Nat), k \in Nat, x \in F64] ==
    [i \in DOMAIN digits |-> JNumToF64[JNum(x.neg, digits[i], k)] = x]

\* the first of the digits that reads back; None if there is none
FirstReadBack[digits \in Seq(Nat), reads \in Seq(BOOLEAN)] ==
    IF digits = <<>> THEN None
    ELSE IF Head(reads) THEN Some(Head(digits))
    ELSE FirstReadBack[Tail(digits), Tail(reads)]

\* the digits of the decimal of x with k decimals that reads back as x
DecimalOf[digits \in Seq(Nat), k \in Nat, x \in F64] ==
    FirstReadBack[digits, ReadBackAs[digits, k, x]]
DecimalDigits[x \in F64, k \in Nat] ==
    DecimalOf[DecimalCandidates[BigMulSmall[x.m, 10^k], -x.e], k, x]

\* serde_json writes an f64 with the shortest decimal that reads back as the
\* same f64 (ryu), always with a decimal point: digits are the digits found
\* with k decimals, None while there are none
ShortestDecimal[x \in F64, k \in Nat, digits \in Seq(Nat)] ==
    IF IsSome(digits) THEN JNum(x.neg, Unwrap(digits), k)
    ELSE ShortestDecimal[x, k + 1, DecimalDigits[x, k + 1]]
F64ToJNum[x \in F64] == ShortestDecimal[x, 0, None]

\* serde_json writes an i64 as its decimal digits
I64ToJNum[i \in Int] == IF i < 0 THEN JNum(TRUE, -i, 0) ELSE JNum(FALSE, i, 0)

(***************************************************************************)
(* serialization.rs                                                        *)
(***************************************************************************)
Thousand == 1000

\* the Duration, in milliseconds, that a number token is read as
SecondsToMillis[tok \in JNumbers] == F64ToInt[F64MulInt[JNumToF64[tok], Thousand]]

\* float_to_duration with the error swallowed as float_to_duration_option
\* swallows it: what is not a number is read as zero
float_to_duration_lenient(v) ==
    IF v.t # "num" THEN Ok(0) ELSE Ok(SecondsToMillis[v])

\* Result<Duration, _>
float_to_duration(v) ==
    IF v.t # "num" THEN Err ELSE Ok(SecondsToMillis[v])

\* Result<Option<Duration>, _>
float_to_duration_option(v) ==
    IF v.t = "num" THEN Ok(Some(SecondsToMillis[v])) ELSE Ok(None)

\* the token written for the f64 of a duration
FloatToken[float \in F64] ==
    IF F64IsIntegral[float] THEN I64ToJNum[F64ToInt[float]] ELSE F64ToJNum[float]

\* duration_to_float without its integer case: every float goes to
\* serialize_f64, which writes 45.0 for 45 seconds
duration_to_float_as_f64(ms) == F64ToJNum[F64DivInt[F64FromInt[ms], Thousand]]

duration_to_float(ms) == FloatToken[F64DivInt[F64FromInt[ms], Thousand]]

duration_option_to_float_option(duration) ==
    IF IsSome(duration) THEN duration_to_float(Unwrap(duration)) ELSE JNull

\* url::Url::parse(&s).ok() on the strings of this model: a valid URL parses
\* to its normalised form, anything else does not parse
UrlTable ==
    ("https://example.com" :> "https://example.com/")
    @@ ("https://example.com/" :> "https://example.com/")
    @@ ("https://example.com/image.png" :> "https://example.com/image.png")
UrlParse(s) == IF s \in DOMAIN UrlTable THEN Some(UrlTable[s]) ELSE None

\* string_to_url with `?` on the parse: a string that is no URL is an error
string_to_url_strict(v) ==
    IF v.t # "str" \/ UrlParse(v.s) = None THEN Err ELSE Ok(UrlParse(v.s))

\* Result<Option<Url>, _>
string_to_url(v) == IF v.t # "str" THEN Err ELSE Ok(UrlParse(v.s))

url_to_string(url) == JStr(url)

url_option_to_string(url) == IF IsSome(url) THEN url_to_string(Unwrap(url)) ELSE JNull

(***************************************************************************)
(* lib.rs: Chapter and the Podcast namespace chapter record                *)
(***************************************************************************)
\* Chapter::default()
DefaultChapter ==
    [start |-> 0, end |-> None, title |-> None, image |-> None, link |-> None,
     hidden |-> FALSE, remote_entity |-> None]

Link(url, title) == [url |-> url, title |-> title]
ImageUrl(url) == [Url |-> url]

\* the conversion with toc.unwrap_or(false): a record without toc is hidden
ChapterFromPodcastNamespaceTocFalse(p) ==
    [start |-> p.start_time,
     end |-> p.end_time,
     title |-> p.title,
     image |-> IF IsSome(p.img) THEN Some(ImageUrl(Unwrap(p.img))) ELSE None,
     link |-> IF IsSome(p.url) THEN Some(Link(Unwrap(p.url), None)) ELSE None,
     hidden |-> ~(IF IsSome(p.toc) THEN Unwrap(p.toc) ELSE FALSE),
     remote_entity |-> None]

\* impl From<PodcastNamespaceChapter> for Chapter
ChapterFromPodcastNamespace(p) ==
    [start |-> p.start_time,
     end |-> p.end_time,
     title |-> p.title,
     image |-> IF IsSome(p.img) THEN Some(ImageUrl(Unwrap(p.img))) ELSE None,
     link |-> IF IsSome(p.url) THEN Some(Link(Unwrap(p.url), None)) ELSE None,
     hidden |-> ~(IF IsSome(p.toc) THEN Unwrap(p.toc) ELSE TRUE),
     remote_entity |-> None]

\* impl From<&Chapter> for PodcastNamespaceChapter
PodcastNamespaceFromChapter(c) ==
    [start_time |-> c.start,
     end_time |-> c.end,
     title |-> c.title,
     img |-> IF IsSome(c.image) THEN Some(Unwrap(c.image).Url) ELSE None,
     url |-> IF IsSome(c.link) THEN Some(Unwrap(c.link).url) ELSE None,
     toc |-> IF c.hidden THEN Some(FALSE) ELSE None]

\* #[derive(Serialize)] for PodcastNamespaceChapter: the keys it writes
SerializePodcastNamespaceChapter(p) ==
    JObj(("startTime" :> duration_to_float(p.start_time))
         @@ Field(IsSome(p.end_time), "endTime", duration_option_to_float_option(p.end_time))
         @@ ("title" :> IF IsSome(p.title) THEN JStr(Unwrap(p.title)) ELSE JNull)
         @@ Field(IsSome(p.img), "img", url_option_to_string(p.img))
         @@ Field(IsSome(p.url), "url", url_option_to_string(p.url))
         @@ Field(IsSome(p.toc), "toc",
                  IF IsSome(p.toc) THEN JBool(Unwrap(p.toc)) ELSE JNull))

\* Option<T> fields read by serde's own impls: null is None, the right type
\* is Some, anything else fails
OptionOf(v, type) ==
    IF v.t = "null" THEN Ok(None)
    ELSE IF v.t # type THEN Err
    ELSE Ok(Some(IF type = "str" THEN v.s ELSE v.b))

\* the value made of the parts, unless reading one of its parts failed
Collect(parts) ==
    IF \A k \in DOMAIN parts : parts[k].ok
    THEN Ok([k \in DOMAIN parts |-> parts[k].val])
    ELSE Err

\* The value that Option::<f64>::deserialize failed on is still in the
\* input: serde_json reads a string, true or false before it reports the
\* wrong type, and reports an array or an object without reading it.
LeftUnread(v) == v.t \in {"arr", "obj"}

\* end_time with deserialize_with = float_to_duration_option, in the derived
\* visitor: after an error that float_to_duration_option swallowed with the
\* value left unread, the next key of the record is not found and the
\* record is an error
DeserializeEndTime(v) ==
    IF LeftUnread(v) THEN Err ELSE float_to_duration_option(v)

\* #[derive(Deserialize)] for PodcastNamespaceChapter, of one JSON object
DeserializePodcastNamespaceChapter(v) ==
    IF v.t # "obj" \/ ~Has(v, "startTime") THEN Err
    ELSE Collect(
        [start_time |-> float_to_duration(v.f["startTime"]),
         end_time |-> IF Has(v, "endTime") THEN DeserializeEndTime(v.f["endTime"])
                      ELSE Ok(None),
         title |-> IF Has(v, "title") THEN OptionOf(v.f["title"], "str") ELSE Ok(None),
         img |-> IF Has(v, "img") THEN string_to_url(v.f["img"]) ELSE Ok(None),
         url |-> IF Has(v, "url") THEN string_to_url(v.f["url"]) ELSE Ok(None),
         toc |-> IF Has(v, "toc") THEN OptionOf(v.f["toc"], "bool") ELSE Ok(None)])

\* #[derive(Deserialize)] for PodcastNamespaceChapters, of a JSON object
DeserializePodcastNamespaceChapters(doc) ==
    IF doc.t # "obj" THEN Err
    ELSE IF ~Has(doc, "version") \/ ~Has(doc, "chapters") THEN Err
    ELSE IF doc.f["version"].t # "str" \/ doc.f["chapters"].t # "arr" THEN Err
    ELSE Collect([i \in DOMAIN doc.f["chapters"].a |->
                     DeserializePodcastNamespaceChapter(doc.f["chapters"].a[i])])

\* .map(|c| c.into()).collect() of what was read, or the error
IntoChapters(podcast_namespace_chapters) ==
    IF ~podcast_namespace_chapters.ok THEN Err
    ELSE Ok([i \in DOMAIN podcast_namespace_chapters.val |->
                ChapterFromPodcastNamespace(podcast_namespace_chapters.val[i])])

from_json(doc) == IntoChapters(DeserializePodcastNamespaceChapters(doc))

SchemaVersion == <<"1", ".", "2", ".", "0">>

to_json(chapters) ==
    Ok(JObj(("version" :> JStr(SchemaVersion))
            @@ ("chapters" :> JArr([i \in 1..Len(chapters) |->
                   SerializePodcastNamespaceChapter(
                       PodcastNamespaceFromChapter(chapters[i]))]))))

\* #[derive(Serialize)] for Link, Image, RemoteEntity and Chapter
SerializeLink(l) ==
    JObj(("url" :> url_to_string(l.url))
         @@ Field(IsSome(l.title), "title",
                  IF IsSome(l.title) THEN JStr(Unwrap(l.title)) ELSE JNull))
SerializeImage(img) == JObj("Url" :> JStr(img.Url))
SerializeRemoteEntity(r) == JObj("feed" :> JObj("guid" :> JStr(r.guid)))
SerializeChapter(c) ==
    JObj(("start" :> duration_to_float(c.start))
         @@ Field(IsSome(c.end), "end", duration_option_to_float_option(c.end))
         @@ Field(IsSome(c.title), "title",
                  IF IsSome(c.title) THEN JStr(Unwrap(c.title)) ELSE JNull)
         @@ Field(IsSome(c.image), "image",
                  IF IsSome(c.image) THEN SerializeImage(Unwrap(c.image)) ELSE JNull)
         @@ Field(IsSome(c.link), "link",
                  IF IsSome(c.link) THEN SerializeLink(Unwrap(c.link)) ELSE JNull)
         @@ ("hidden" :> JBool(c.hidden))
         @@ Field(IsSome(c.remote_entity), "remote_entity",
                  IF IsSome(c.remote_entity)
                  THEN SerializeRemoteEntity(Unwrap(c.remote_entity)) ELSE JNull))

\* serde_json::to_string_pretty(&chapters) of a Vec<Chapter>
serialize_chapters(chapters) ==
    Ok(JArr([i \in 1..Len(chapters) |-> SerializeChapter(chapters[i])]))

(***************************************************************************)
(* lib.rs: timestamps in episode descriptions                              *)
(***************************************************************************)
\* a decimal digit that is not ASCII (ARABIC-INDIC DIGIT THREE), one character
ArabicIndicThree == "U+0663"

AsciiDigits == {"0", "1", "2", "3", "4", "5", "6", "7", "8", "9"}
DigitValue ==
    ("0" :> 0) @@ ("1" :> 1) @@ ("2" :> 2) @@ ("3" :> 3) @@ ("4" :> 4)
    @@ ("5" :> 5) @@ ("6" :> 6) @@ ("7" :> 7) @@ ("8" :> 8) @@ ("9" :> 9)
\* the regex class \d: the regex crate's \d is Unicode's decimal digits
IsDigit(c) == c \in AsciiDigits \/ c = ArabicIndicThree
\* the regex class [0-5]
IsZeroToFive(c) == c \in {"0", "1", "2", "3", "4", "5"}
\* the separator class with the colon in it
IsSeparatorOrColon(c) == c \in {".", "!", "?", "-", " ", ":"}

\* the regex class [.!?\- ]
IsSeparator(c) == c \in {".", "!", "?", "-", " "}
\* char::is_numeric
IsNumeric(c) == c \in AsciiDigits \/ c = ArabicIndicThree
\* char::is_whitespace
IsWhitespace(c) == c \in {" ", "\t", "\n", "\r"}

\* str::trim
RECURSIVE TrimStart(_)
TrimStart(s) ==
    IF s # <<>> /\ IsWhitespace(Head(s)) THEN TrimStart(Tail(s)) ELSE s
RECURSIVE TrimEnd(_)
TrimEnd(s) ==
    IF s # <<>> /\ IsWhitespace(s[Len(s)]) THEN TrimEnd(SubSeq(s, 1, Len(s) - 1)) ELSE s
Trim(s) == TrimEnd(TrimStart(s))

\* str::lines: split at "\n", a "\r" before it dropped; no last empty line
FirstNewline(s) ==
    IF \E i \in 1..Len(s) : s[i] = "\n"
    THEN CHOOSE i \in 1..Len(s) : s[i] = "\n" /\ \A j \in 1..(i - 1) : s[j] # "\n"
    ELSE 0
StripCarriageReturn(s) ==
    IF s # <<>> /\ s[Len(s)] = "\r" THEN SubSeq(s, 1, Len(s) - 1) ELSE s
RECURSIVE Lines(_)
Lines(s) ==
    IF s = <<>> THEN <<>>
    ELSE IF FirstNewline(s) = 0 THEN <<s>>
    ELSE <<StripCarriageReturn(SubSeq(s, 1, FirstNewline(s) - 1))>>
         \o Lines(SubSeq(s, FirstNewline(s) + 1, Len(s)))

\* enum TimestampType, in the order from_line tries them
MmSs == "MmSs"
HhMmSs == "HhMmSs"
MmSsParentheses == "MmSsParentheses"
HhMmSsParentheses == "HhMmSsParentheses"
TimestampTypes == <<MmSs, HhMmSs, MmSsParentheses, HhMmSsParentheses>>

HasHours(tt) == tt \in {HhMmSs, HhMmSsParentheses}
HasParentheses(tt) == tt \in {MmSsParentheses, HhMmSsParentheses}

\* [0-5]\d at s[i], s[i+1]
IsSixtyField(s, i) == i + 1 <= Len(s) /\ IsZeroToFive(s[i]) /\ IsDigit(s[i + 1])
\* \d{2} at s[i], s[i+1]
IsTwoDigits(s, i) == i + 1 <= Len(s) /\ IsDigit(s[i]) /\ IsDigit(s[i + 1])
IsChar(s, i, c) == i <= Len(s) /\ s[i] = c

\* TimestampType::regex_pattern: the length of the match of the anchored
\* timestamp pattern at the start of s, 0 if it does not match
TimestampLen(s, tt) ==
    LET o == IF HasParentheses(tt) THEN 1 ELSE 0      \* offset of the fields
        fields ==
            IF HasHours(tt)
            THEN IsTwoDigits(s, o + 1) /\ IsChar(s, o + 3, ":")
                 /\ IsSixtyField(s, o + 4) /\ IsChar(s, o + 6, ":")
                 /\ IsSixtyField(s, o + 7)
            ELSE IsSixtyField(s, o + 1) /\ IsChar(s, o + 3, ":")
                 /\ IsSixtyField(s, o + 4)
        n == IF HasHours(tt) THEN 8 ELSE 5
    IN  IF HasParentheses(tt)
        THEN IF IsChar(s, 1, "(") /\ fields /\ IsChar(s, n + 2, ")") THEN n + 2 ELSE 0
        ELSE IF fields THEN n ELSE 0

\* the length of the run of separator characters of s from position i on
RECURSIVE SeparatorRun(_, _)
SeparatorRun(s, i) ==
    IF i <= Len(s) /\ IsSeparator(s[i]) THEN 1 + SeparatorRun(s, i + 1) ELSE 0

\* TimestampType::line_regex_pattern matched against a line: None, or the
\* captures.  [.!?\- ]+ is greedy and gives back one character when it
\* runs to the end of the line, so that (?P<text>.+) is not empty.
Captures(line, tt) ==
    LET n   == TimestampLen(line, tt)
        run == SeparatorRun(line, n + 1)
        sep == IF n + run = Len(line) THEN run - 1 ELSE run
        o   == IF HasParentheses(tt) THEN 1 ELSE 0
    IN  IF n = 0 \/ sep < 1 \/ (\E i \in 1..Len(line) : line[i] = "\n") THEN None
        ELSE Some([hours   |-> IF HasHours(tt) THEN Some(SubSeq(line, o + 1, o + 2)) ELSE None,
                   minutes |-> IF HasHours(tt) THEN Some(SubSeq(line, o + 4, o + 5))
                               ELSE Some(SubSeq(line, o + 1, o + 2)),
                   seconds |-> IF HasHours(tt) THEN Some(SubSeq(line, o + 7, o + 8))
                               ELSE Some(SubSeq(line, o + 4, o + 5)),
                   text    |-> SubSeq(line, n + sep + 1, Len(line))])

\* TimestampType::from_line
from_line(line) ==
    IF line # <<>> /\ (Head(line) = "(" \/ IsNumeric(Head(line)))
       /\ \E i \in 1..Len(TimestampTypes) : IsSome(Captures(line, TimestampTypes[i]))
    THEN Some(TimestampTypes[CHOOSE i \in 1..Len(TimestampTypes) :
                 /\ IsSome(Captures(line, TimestampTypes[i]))
                 /\ \A j \in 1..(i - 1) : ~IsSome(Captures(line, TimestampTypes[j]))])
    ELSE None

\* str::parse::<i64> of a captured two-character field: ASCII digits only
parse_i64(capture) ==
    IF ~IsSome(capture) THEN Ok(0)
    ELSE LET m == Unwrap(capture)
         IN  IF \A i \in 1..Len(m) : m[i] \in AsciiDigits
             THEN Ok(DigitValue[m[1]] * 10 + DigitValue[m[2]])
             ELSE Err

MsPerSecond == 1000
MsPerMinute == 60 * MsPerSecond
MsPerHour == 60 * MsPerMinute

\* parse_timestamp with Duration::seconds(minutes): the minutes counted as
\* seconds
parse_timestamp_minutes_as_seconds(captures) ==
    LET hours   == parse_i64(captures.hours)
        minutes == parse_i64(captures.minutes)
        seconds == parse_i64(captures.seconds)
    IN  IF hours.ok /\ minutes.ok /\ seconds.ok
        THEN Ok(hours.val * MsPerHour + minutes.val * MsPerSecond
                + seconds.val * MsPerSecond)
        ELSE Err

\* Result<Duration, String>, the Duration in milliseconds
parse_timestamp(captures) ==
    LET hours   == parse_i64(captures.hours)
        minutes == parse_i64(captures.minutes)
        seconds == parse_i64(captures.seconds)
    IN  IF hours.ok /\ minutes.ok /\ seconds.ok
        THEN Ok(hours.val * MsPerHour + minutes.val * MsPerMinute
                + seconds.val * MsPerSecond)
        ELSE Err

\* the closure parse_line of from_description: Option<Chapter>
parse_line(line, timestamp_type) ==
    LET captures == Captures(line, timestamp_type)
    IN  IF IsSome(captures)
        THEN LET start == parse_timestamp(Unwrap(captures))
             IN  IF start.ok
                 THEN Some([start |-> start.val, end |-> None,
                            title |-> Some(Trim(Unwrap(captures).text)),
                            image |-> None, link |-> None, hidden |-> FALSE,
                            remote_entity |-> None])
                 ELSE None
        ELSE None

\* the loop of from_description from line i on
RECURSIVE ScanLines(_, _, _, _)
ScanLines(lines, i, timestamp_type, chapters) ==
    IF i > Len(lines) THEN chapters
    ELSE LET tt == IF IsSome(timestamp_type) THEN timestamp_type
                   ELSE from_line(lines[i])
         IN  IF IsSome(tt)
             THEN LET chapter == parse_line(lines[i], Unwrap(tt))
                  IN  IF IsSome(chapter)
                      THEN ScanLines(lines, i + 1, tt, Append(chapters, Unwrap(chapter)))
                      ELSE chapters                               \* break
             ELSE ScanLines(lines, i + 1, tt, chapters)

TrimmedLines(description) ==
    LET ls == Lines(description) IN [i \in 1..Len(ls) |-> Trim(ls[i])]

from_description(description) ==
    Ok(ScanLines(TrimmedLines(description), 1, None, <<>>))

\* integer division that truncates toward zero, as chrono's num_* do
TruncDiv(a, b) == IF a >= 0 THEN a \div b ELSE -((-a) \div b)

RECURSIVE NatDigits(_)
NatDigits(n) ==
    IF n < 10 THEN <<CHOOSE c \in AsciiDigits : DigitValue[c] = n>>
    ELSE NatDigits(n \div 10) \o NatDigits(n % 10)

\* format!("{n}"): the number without padding
Format02Unpadded(n) ==
    IF n < 0 THEN <<"-">> \o NatDigits(-n) ELSE NatDigits(n)

\* format!("{n:02}"): at least two characters, zero-padded after the sign
Format02(n) ==
    IF n < 0 THEN <<"-">> \o NatDigits(-n)
    ELSE IF n < 10 THEN <<"0">> \o NatDigits(n)
    ELSE NatDigits(n)

\* duration_to_timestamp with the hours left in the seconds
duration_to_timestamp_seconds_of_hours(duration, timestamp_type) ==
    LET hours   == TruncDiv(duration, MsPerHour)
        minutes == TruncDiv(duration, MsPerMinute) - hours * 60
        seconds == TruncDiv(duration, MsPerSecond) - minutes * 60
        mmss    == Format02(minutes) \o <<":">> \o Format02(seconds)
        hhmmss  == Format02(hours) \o <<":">> \o mmss
    IN  CASE timestamp_type = MmSs -> mmss
          [] timestamp_type = HhMmSs -> hhmmss
          [] timestamp_type = MmSsParentheses -> <<"(">> \o mmss \o <<")">>
          [] timestamp_type = HhMmSsParentheses -> <<"(">> \o hhmmss \o <<")">>

duration_to_timestamp(duration, timestamp_type) ==
    LET hours   == TruncDiv(duration, MsPerHour)
        minutes == TruncDiv(duration, MsPerMinute) - hours * 60
        seconds == TruncDiv(duration, MsPerSecond) - minutes * 60 - hours * 3600
        mmss    == Format02(minutes) \o <<":">> \o Format02(seconds)
        hhmmss  == Format02(hours) \o <<":">> \o mmss
    IN  CASE timestamp_type = MmSs -> mmss
          [] timestamp_type = HhMmSs -> hhmmss
          [] timestamp_type = MmSsParentheses -> <<"(">> \o mmss \o <<")">>
          [] timestamp_type = HhMmSsParentheses -> <<"(">> \o hhmmss \o <<")">>

\* the separator that format!("{} {}", ..) puts between timestamp and title
LineSeparator == <<" ">>

\* the line with format!("{} - {}", ..)
DescriptionLineWithHyphen(chapter, timestamp_type) ==
    duration_to_timestamp(chapter.start, timestamp_type)
    \o <<" ", "-", " ">> \o Unwrap(chapter.title) \o <<"\n">>

\* the line with the notation chosen for the chapter alone, by its own start
DescriptionLineOwnNotation(chapter, timestamp_type) ==
    duration_to_timestamp(chapter.start,
                          IF chapter.start >= MsPerHour THEN HhMmSs ELSE MmSs)
    \o LineSeparator \o Unwrap(chapter.title) \o <<"\n">>

\* the line to_description pushes for one chapter
DescriptionLine(chapter, timestamp_type) ==
    duration_to_timestamp(chapter.start, timestamp_type)
    \o LineSeparator \o Unwrap(chapter.title) \o <<"\n">>

RECURSIVE ConcatLines(_, _, _)
ConcatLines(chapters, i, timestamp_type) ==
    IF i > Len(chapters) THEN <<>>
    ELSE DescriptionLine(chapters[i], timestamp_type)
         \o ConcatLines(chapters, i + 1, timestamp_type)

\* the notation to_description chooses for the whole output
ChosenTimestampType(chapters) ==
    IF \E i \in 1..Len(chapters) : chapters[i].start >= MsPerHour
    THEN HhMmSs ELSE MmSs

\* to_description with the chapters without a title skipped (`continue`
\* where the code has `?`)
to_description_skipping_untitled(chapters) ==
    Ok(ConcatLines(SelectSeq(chapters, LAMBDA c : IsSome(c.title)), 1,
                   ChosenTimestampType(chapters)))

to_description(chapters) ==
    IF \E i \in 1..Len(chapters) : ~IsSome(chapters[i].title) THEN Err
    ELSE Ok(ConcatLines(chapters, 1, ChosenTimestampType(chapters)))

(***************************************************************************)
(* lib.rs: the chapter frames of the ID3 tag of an MP3 file                *)
(***************************************************************************)
\* The u32 of start_time and end_time of an id3::frame::Chapter in two 16-bit
\* halves, and with it the Duration of a chapter read from a tag:
\* Duration::milliseconds(x as i64) of a u32 x has the value of x.
HalfBase == 65536
U32(hi, lo) == [hi |-> hi, lo |-> lo]

\* `ms as u32` of an i64: the value modulo 2^32
I64AsU32(ms) ==
    IF ms >= 0
    THEN U32((ms \div HalfBase) % HalfBase, ms % HalfBase)
    ELSE LET below == -ms - 1
         IN  U32(HalfBase - 1 - ((below \div HalfBase) % HalfBase),
                 HalfBase - 1 - (below % HalfBase))

\* a.cmp(&b) = Less
U32Less(a, b) == a.hi < b.hi \/ (a.hi = b.hi /\ a.lo < b.lo)

\* id3::Content of a frame
Text(text) == [kind |-> "Text", text |-> text]
PlainLink(link) == [kind |-> "Link", link |-> link]
ExtendedLink(link, description) ==
    [kind |-> "ExtendedLink", link |-> link, description |-> description]
Picture == [kind |-> "Picture"]

\* id3::Frame::with_content(id, content)
Frame(id, content) == [id |-> id, content |-> content]

\* Content::Chapter(id3::frame::Chapter { .. }) in its CHAP frame
ChapterFrame(element_id, start_time, end_time, frames) ==
    [id |-> "CHAP", element_id |-> element_id,
     start_time |-> start_time, end_time |-> end_time,
     start_offset |-> 0, end_offset |-> 0, frames |-> frames]

\* tag.chapters(): the chapter frames of the tag, in the order of the tag
TagChapters(frames) == SelectSeq(frames, LAMBDA f : f.id = "CHAP")

\* tag.remove_all_chapters()
RemoveAllChapters(frames) == SelectSeq(frames, LAMBDA f : f.id # "CHAP")

\* tag.add_frame(frame), for a CHAP frame: a frame of the tag with the same
\* element id is replaced
AddFrame(frames, frame) ==
    Append(SelectSeq(frames, LAMBDA f : ~(f.id = "CHAP" /\ f.element_id = frame.element_id)),
           frame)

\* What a path of the file system holds: nothing, or a file with audio and
\* no tag, a tag that cannot be parsed, or a tag with frames.
NoTag == [kind |-> "NoTag"]
CorruptTag == [kind |-> "Corrupt"]
Tag(frames) == [kind |-> "Tag", frames |-> frames]
File(audio, tag) == [audio |-> audio, tag |-> tag]

\* Tag::read_from_path(path): the frames of the tag, or the kind of error
ReadFromPath(files, path) ==
    IF path \notin DOMAIN files \/ files[path] = None
    THEN [ok |-> FALSE, val |-> "Io"]
    ELSE LET tag == Unwrap(files[path]).tag
         IN  CASE tag.kind = "NoTag" -> [ok |-> FALSE, val |-> "NoTag"]
               [] tag.kind = "Corrupt" -> [ok |-> FALSE, val |-> "Parsing"]
               [] OTHER -> Ok(tag.frames)

\* end of a chapter that always is the end offset of its frame
EndOfFrameAlways(start, temp_end) == Some(temp_end)

\* let end = if temp_end == start { None } else { Some(temp_end) }
EndOfFrame(start, temp_end) == IF temp_end = start THEN None ELSE Some(temp_end)

\* the title of a link from the description of an extended link, untrimmed
LinkTitleUntrimmed(description) ==
    IF Trim(description) = <<>> THEN None ELSE Some(description)

\* match extended_link.description.trim() { "" => None, d => Some(d.to_string()) }
LinkTitle(description) ==
    IF Trim(description) = <<>> THEN None ELSE Some(Trim(description))

\* url::Url::parse(url) without the `?`: a link that is no URL is no link
LinkOfUrlLenient(url, title) ==
    IF UrlParse(url) = None THEN Ok(None)
    ELSE Ok(Some(Link(Unwrap(UrlParse(url)), title)))

\* Some(Link { url: url::Url::parse(url).map_err(..)?, title })
LinkOfUrl(url, title) ==
    IF UrlParse(url) = None THEN Err
    ELSE Ok(Some(Link(Unwrap(UrlParse(url)), title)))

\* the body of `for subframe in &id3_chapter.frames`: title and link after
\* the sub-frame, or the error of its URL
ReadSubFrame(so_far, content) ==
    CASE content.kind = "Text" ->
            Ok([so_far EXCEPT !.title = Some(content.text)])
      [] content.kind \in {"Link", "ExtendedLink"} ->
            LET link == LinkOfUrl(content.link,
                                  IF content.kind = "Link" THEN None
                                  ELSE LinkTitle(content.description))
            IN  IF link.ok THEN Ok([so_far EXCEPT !.link = link.val]) ELSE Err
      [] OTHER -> Ok(so_far)

RECURSIVE ReadSubFrames(_, _)
ReadSubFrames(so_far, frames) ==
    IF frames = <<>> THEN Ok(so_far)
    ELSE LET step == ReadSubFrame(so_far, Head(frames).content)
         IN  IF step.ok THEN ReadSubFrames(step.val, Tail(frames)) ELSE Err

\* the body of `for id3_chapter in tag.chapters()`
ChapterFromFrame(frame) ==
    LET read == ReadSubFrames([title |-> None, link |-> None], frame.frames)
    IN  IF ~read.ok THEN Err
        ELSE Ok([DefaultChapter EXCEPT
                    !.start = frame.start_time,
                    !.end = EndOfFrame(frame.start_time, frame.end_time),
                    !.title = read.val.title,
                    !.link = read.val.link])

\* chapters.sort_by(|a, b| a.start.cmp(&b.start)): a stable sort
RECURSIVE InsertByStart(_, _)
InsertByStart(sorted, chapter) ==
    IF sorted = <<>> \/ ~U32Less(chapter.start, sorted[Len(sorted)].start)
    THEN Append(sorted, chapter)
    ELSE Append(InsertByStart(SubSeq(sorted, 1, Len(sorted) - 1), chapter),
                sorted[Len(sorted)])

\* the chapters as pushed, without the sort
InOrderOfFrames(chapters) == chapters

RECURSIVE SortByStart(_)
SortByStart(chapters) ==
    IF chapters = <<>> THEN <<>>
    ELSE InsertByStart(SortByStart(SubSeq(chapters, 1, Len(chapters) - 1)),
                       chapters[Len(chapters)])

\* the chapters of the frames, sorted, unless one frame was an error
ChaptersOfFrames(frames) ==
    LET read == Collect([i \in DOMAIN frames |-> ChapterFromFrame(frames[i])])
    IN  IF read.ok THEN Ok(SortByStart(read.val)) ELSE Err

from_mp3_file(files, path) ==
    LET tag == ReadFromPath(files, path)
    IN  IF tag.ok THEN ChaptersOfFrames(TagChapters(tag.val)) ELSE Err

\* std::fs::copy(src, dst): the file system after it, or an error when there
\* is no source file or the destination cannot be created
Copy(files, src, dst) ==
    IF src \notin DOMAIN files \/ dst \notin DOMAIN files \/ files[src] = None
    THEN Err
    ELSE Ok([files EXCEPT ![dst] = files[src]])

\* the sub-frames of the chapter: TIT2 for the title, WXXX for the link
SubFramesOf(chapter) ==
    (IF IsSome(chapter.title)
     THEN <<Frame("TIT2", Text(Unwrap(chapter.title)))>> ELSE <<>>)
    \o (IF IsSome(chapter.link)
        THEN <<Frame("WXXX",
                     ExtendedLink(Unwrap(chapter.link).url,
                                  IF IsSome(Unwrap(chapter.link).title)
                                  THEN Unwrap(Unwrap(chapter.link).title)
                                  ELSE <<>>))>>
        ELSE <<>>)

\* the frame of chapters[i], i counted from 1 (format!("chp{}", i + 1) of
\* the index from 0), its times num_milliseconds() as u32
FrameOfChapter(i, chapter) ==
    ChapterFrame("chp" \o ToString(i),
                 I64AsU32(chapter.start),
                 I64AsU32(IF IsSome(chapter.end) THEN Unwrap(chapter.end)
                          ELSE chapter.start),
                 SubFramesOf(chapter))

\* the tag after `for (i, chapter) in chapters.iter().enumerate()`
RECURSIVE AddChapters(_, _, _)
AddChapters(frames, chapters, i) ==
    IF i > Len(chapters) THEN frames
    ELSE AddChapters(AddFrame(frames, FrameOfChapter(i, chapters[i])), chapters, i + 1)

\* The steps of to_mp3_file after the copy, on the file system copied:
\* the tag is read from the source; with no tag a new one is made; the
\* frames are added and the tag written to the destination.  written says
\* whether tag.write_to_path succeeds; when it does not, nothing of the tag
\* has reached the file.
\* an error after the copy that removes the destination again
LaterErrorRemovingCopy(copied, dst, steps) ==
    [ret |-> Err, files |-> [copied EXCEPT ![dst] = None], io |-> steps]

\* the `?` of a step after the copy: the error is returned, the files are as
\* the copy left them
LaterError(copied, dst, steps) ==
    [ret |-> Err, files |-> copied, io |-> steps]

TagCopied(copied, src, dst, chapters, written) ==
    LET tag == ReadFromPath(copied, src)
    IN  IF ~tag.ok /\ tag.val # "NoTag"
        THEN LaterError(copied, dst, <<"copy", "read">>)
        ELSE IF ~written
        THEN LaterError(copied, dst, <<"copy", "read", "write">>)
        ELSE [ret |-> Ok(<<>>),
              files |-> [copied EXCEPT ![dst] =
                  Some(File(Unwrap(copied[dst]).audio,
                            Tag(AddChapters(IF tag.ok THEN RemoveAllChapters(tag.val)
                                            ELSE <<>>,
                                            chapters, 1))))],
              io |-> <<"copy", "read", "write">>]

\* to_mp3_file: its result, the file system after it, and the file
\* operations it made
to_mp3_file(files, src, dst, chapters, written) ==
    LET copied == Copy(files, src, dst)
    IN  IF copied.ok THEN TagCopied(copied.val, src, dst, chapters, written)
        ELSE [ret |-> Err, files |-> files, io |-> <<"copy">>]

(***************************************************************************)
(* The values the application passes to the codecs                         *)
(***************************************************************************)
MaxChapters == 2
MaxRecords == 2
MaxLines == 3

\* all sequences over S of length at most n
RECURSIVE SeqsUpTo(_, _)
SeqsUpTo(S, n) ==
    IF n = 0 THEN {<<>>}
    ELSE LET shorter == SeqsUpTo(S, n - 1)
         IN  shorter \cup {Append(q, x) : q \in {r \in shorter : Len(r) = n - 1}, x \in S}

Intro == <<"I", "n", "t", "r", "o">>
Baboons == <<"B", "a", "b", "o", "o", "n", "s">>
DashTitle == <<"-", " ", "Q">>
TwoLineTitle == <<"a", "\n", "b">>
TimeTitle == <<"1", "0", ":", "0", "0", " ", "-", " ", "Q", "!">>

ExampleUrl == "https://example.com/"
ExampleImage == "https://example.com/image.png"
ExampleFeed == [guid |-> "917393e3-1b1e-5cef-ace4-edaa54e1f810"]

\* Durations, in milliseconds
Durations ==
    {0, 500, 1000, 1001, 4004, 10400, 45000, 130500, 304000, 3599999,
     3600000, 3661000, 360000000, -1500}
EndDurations == {0, 10400, 1001, 42000}

\* chapters that differ in their times
TimingChapters ==
    {[DefaultChapter EXCEPT !.start = s, !.end = e, !.title = Some(Intro)] :
        s \in Durations, e \in {None} \cup {Some(d) : d \in EndDurations}}
\* chapters that differ in their other fields
ShapeChapters ==
    [start : {0, 45000},
     end : {None},
     title : {None, Some(Intro), Some(DashTitle), Some(TwoLineTitle)},
     image : {None, Some(ImageUrl(ExampleImage))},
     link : {None, Some(Link(ExampleUrl, None)), Some(Link(ExampleUrl, Some(Intro)))},
     hidden : BOOLEAN,
     remote_entity : {None, Some(ExampleFeed)}]
\* the chapters of the longer lists
ListChapters ==
    {[DefaultChapter EXCEPT !.title = Some(Intro)],
     [DefaultChapter EXCEPT !.start = 304000, !.title = Some(Baboons)],
     [DefaultChapter EXCEPT !.start = 3600000, !.title = Some(Intro), !.hidden = TRUE],
     [DefaultChapter EXCEPT !.start = 1001, !.end = Some(10400)],
     [DefaultChapter EXCEPT !.start = 3661000, !.title = Some(TimeTitle)],
     [DefaultChapter EXCEPT !.start = 45000, !.title = Some(Baboons),
                            !.image = Some(ImageUrl(ExampleImage)),
                            !.link = Some(Link(ExampleUrl, None))]}
ChapterLists ==
    SeqsUpTo(ListChapters, MaxChapters)
    \cup {<<c>> : c \in TimingChapters \cup ShapeChapters}

\* JSON chapter records: each key absent or with one of some values
Absent == [t |-> "absent"]
Record(startTime, endTime, title, img, url, toc) ==
    JObj(Field(startTime # Absent, "startTime", startTime)
         @@ Field(endTime # Absent, "endTime", endTime)
         @@ Field(title # Absent, "title", title)
         @@ Field(img # Absent, "img", img)
         @@ Field(url # Absent, "url", url)
         @@ Field(toc # Absent, "toc", toc))
NumberTokens ==
    {JNum(FALSE, 0, 0), JNum(FALSE, 45, 0), JNum(FALSE, 450, 1), JNum(FALSE, 305, 1),
     JNum(FALSE, 1001, 3), JNum(FALSE, 10009, 4), JNum(TRUE, 15, 1)}
NotANumber == {JStr(Intro), JNull, JBool(TRUE), JArr(<<>>), JObj(NoFields)}
NotAUrl == "not a url"
\* records that differ in their times
TimingRecords ==
    {Record(s, e, JStr(Intro), Absent, Absent, Absent) :
        s \in NumberTokens \cup NotANumber \cup {Absent},
        e \in {Absent, JNum(FALSE, 305, 1), JNum(FALSE, 4004, 3)} \cup NotANumber}
\* records that differ in their other fields
ShapeRecords ==
    {Record(JNum(FALSE, 55, 0), Absent, title, img, url, toc) :
        title \in {Absent, JNull, JStr(Intro)},
        img \in {Absent, JStr(ExampleImage), JStr(NotAUrl), JStr("")},
        url \in {Absent, JStr("https://example.com"), JStr(NotAUrl)},
        toc \in {Absent, JNull, JBool(TRUE), JBool(FALSE)}}
\* the records of the longer lists
ListRecords ==
    {Record(JNum(FALSE, 0, 0), JNum(FALSE, 305, 1), JStr(Intro), JStr(ExampleImage),
            JStr(ExampleUrl), JBool(TRUE)),
     Record(JNum(FALSE, 55, 0), Absent, JStr(Baboons), Absent, Absent, JBool(FALSE)),
     Record(JNum(FALSE, 305, 1), Absent, Absent, JStr(NotAUrl), JStr(NotAUrl), Absent),
     Record(JNum(FALSE, 450, 1), JStr(Intro), JStr(Baboons), JStr(ExampleImage),
            Absent, JBool(TRUE)),
     Record(JStr(Intro), Absent, JStr(Intro), Absent, Absent, Absent),
     Record(Absent, Absent, JStr(Intro), Absent, Absent, Absent)}
RecordLists ==
    SeqsUpTo(ListRecords, MaxRecords)
    \cup {<<r>> : r \in TimingRecords \cup ShapeRecords}
ChaptersDocument(records) ==
    JObj(("version" :> JStr(SchemaVersion)) @@ ("chapters" :> JArr(records)))
Documents ==
    {ChaptersDocument(rs) : rs \in RecordLists}
    \cup {JMalformed,
          JObj("version" :> JStr(SchemaVersion)),
          JObj("chapters" :> JArr(<<>>)),
          JObj(("version" :> JStr(SchemaVersion)) @@ ("chapters" :> JNull))}

\* description lines, and the descriptions made of them
DescriptionLines ==
    {<<"H", "i", ".">>,
     <<>>,
     <<"1", ".", " ", "o", "n", "e">>,
     <<"0", "0", ":", "0", "0", " ", "-", " ", "I", "n", "t", "r", "o">>,
     <<" ", "0", "5", ":", "0", "4", " ", "B", " ", "\r">>,
     <<"0", "9", ":", "5", "8", " ", "-">>,
     <<"0", "1", ":", "0", "2", ":", "0", "3", "?", "X">>,
     <<"(", "0", "0", ":", "1", "0", ")", " ", "Y">>,
     <<"(", "0", "1", ":", "0", "0", ":", "0", "0", ")", " ", "Z">>,
     <<"0", ArabicIndicThree, ":", "0", "0", " ", "U">>,
     <<"6", "1", ":", "0", "0", " ", "V">>,
     <<"0", "0", ":", "0", "0", "W">>,
     <<"0", "0", ":", "1", "0", " ", "\t", "K">>}
RECURSIVE JoinLines(_)
JoinLines(ls) ==
    IF ls = <<>> THEN <<>>
    ELSE IF Len(ls) = 1 THEN ls[1]
    ELSE ls[1] \o <<"\n">> \o JoinLines(Tail(ls))
\* lines made as timestamps are made: two or three two-character fields
\* with colons, with or without parentheses, and what follows them
TimestampFields == {<<"0", "0">>, <<"5", "9">>, <<"6", "1">>}
TimestampTails ==
    {<<>>, <<" ", "x">>, <<"x">>, <<"-">>, <<":", "x">>, <<":", " ", "x">>,
     <<".", "!", "?", "-", " ", "x">>}
TimestampLikeLines ==
    {open \o first \o <<":">> \o second \o third \o close \o tail :
        open \in {<<>>, <<"(">>},
        first \in TimestampFields,
        second \in TimestampFields,
        third \in {<<>>} \cup {<<":">> \o f : f \in TimestampFields},
        close \in {<<>>, <<")">>},
        tail \in TimestampTails}
Descriptions ==
    {JoinLines(ls) : ls \in SeqsUpTo(DescriptionLines, MaxLines)}
    \cup TimestampLikeLines

(***************************************************************************)
(* The MP3 files and the chapters the application passes to the MP3 codec  *)
(***************************************************************************)
MaxSubFrames == 2
MaxFrames == 2

Padded(s) == <<" ">> \o s \o <<" ", "\t">>
Blank == <<" ", " ">>

\* start and end offsets: 0 s, 42 s, 65.536 s, 2^31 ms and 2^32 - 1500 ms
Offsets == {U32(0, 0), U32(0, 42000), U32(1, 0), U32(32768, 0), U32(65535, 64036)}

\* the sub-frames of the chapter frames
SubFrames ==
    {Frame("TIT2", Text(Intro)), Frame("TIT3", Text(Baboons)),
     Frame("WOAF", PlainLink("https://example.com")),
     Frame("WOAF", PlainLink(NotAUrl)),
     Frame("WXXX", ExtendedLink(ExampleImage, <<>>)),
     Frame("WXXX", ExtendedLink(ExampleUrl, Blank)),
     Frame("WXXX", ExtendedLink(ExampleUrl, Padded(Baboons))),
     Frame("WXXX", ExtendedLink(NotAUrl, Intro)),
     Frame("APIC", Picture)}

\* chapter frames that differ in their offsets
TimingFrames ==
    {ChapterFrame("ch", s, e, <<Frame("TIT2", Text(Intro))>>) :
        s \in Offsets, e \in Offsets}
\* chapter frames that differ in their sub-frames
ShapeFrames ==
    {ChapterFrame("ch", U32(0, 0), U32(0, 42000), frames) :
        frames \in SeqsUpTo(SubFrames, MaxSubFrames)}
\* the frames of the longer tags: chapters out of order and with equal
\* starts, one with a link that is no URL, and a frame that is no chapter
ListFrames ==
    {ChapterFrame("ch0", U32(0, 42000), U32(1, 0), <<Frame("TIT2", Text(Intro))>>),
     ChapterFrame("ch1", U32(0, 0), U32(0, 42000), <<Frame("TIT2", Text(Baboons))>>),
     ChapterFrame("ch2", U32(0, 0), U32(0, 0),
                  <<Frame("WXXX", ExtendedLink(ExampleUrl, Intro))>>),
     ChapterFrame("ch3", U32(32768, 0), U32(0, 0),
                  <<Frame("WOAF", PlainLink(NotAUrl))>>),
     Frame("TALB", Text(Baboons))}

Tags ==
    {NoTag, CorruptTag}
    \cup {Tag(<<frame>>) : frame \in TimingFrames \cup ShapeFrames}
    \cup {Tag(frames) : frames \in SeqsUpTo(ListFrames, MaxFrames)}

SrcPath == "src.mp3"
DstPath == "dst.mp3"
\* a path in a directory that does not exist
NoDirPath == "nodir/dst.mp3"

\* the directory before the first call: the source, if there is one, and no
\* destination
FileSystems ==
    {(SrcPath :> source) @@ (DstPath :> None) :
        source \in {None} \cup {Some(File("speech", tag)) : tag \in Tags}}
NoFiles == (SrcPath :> None) @@ (DstPath :> None)

\* the chapters written to a tag: chapters that differ in their times,
\* chapters that differ in their other fields, and the chapters of the lists
TaggedTimingChapters ==
    {[DefaultChapter EXCEPT !.start = s, !.end = e, !.title = Some(Intro)] :
        s \in {0, 42000, 360000000, -1500},
        e \in {None, Some(0), Some(42000), Some(-1500)}}
TaggedShapeChapters ==
    [start : {42000},
     end : {None},
     title : {None, Some(Baboons)},
     image : {None},
     link : {None} \cup {Some(Link(ExampleUrl, title)) :
                title \in {None, Some(Intro), Some(<<>>), Some(Padded(Intro))}},
     hidden : {FALSE},
     remote_entity : {None}]
    \cup {[DefaultChapter EXCEPT !.image = Some(ImageUrl(ExampleImage)),
                                 !.hidden = TRUE,
                                 !.remote_entity = Some(ExampleFeed)]}
TaggedListChapters ==
    {[DefaultChapter EXCEPT !.title = Some(Intro)],
     [DefaultChapter EXCEPT !.title = Some(Baboons), !.end = Some(42000)],
     [DefaultChapter EXCEPT !.start = 304000, !.title = Some(Baboons),
                            !.link = Some(Link(ExampleUrl, Some(Intro)))]}
TaggedChapterLists ==
    SeqsUpTo(TaggedListChapters, MaxChapters)
    \cup {<<c>> : c \in TaggedTimingChapters \cup TaggedShapeChapters}

(***************************************************************************)
(* The application: one action per call of a codec.  op is the function   *)
(* last called, arg its argument, ret what it returned, and origin the    *)
(* chapters that arg was written from when arg is the output of a write.  *)
(* files is the directory of the MP3 files and io the file operations the *)
(* last call made.  The codecs keep no state between calls: the           *)
(* application makes a call when it holds no result, may read back what a *)
(* write returned, and drops the result.                                   *)
(***************************************************************************)
VARIABLES op, arg, ret, origin, files, io
vars == <<op, arg, ret, origin, files, io>>

Init ==
    /\ op = "none"
    /\ arg = <<>>
    /\ ret = Ok(<<>>)
    /\ origin = None
    /\ files = NoFiles
    /\ io = <<>>

\* a call of a codec that works on no file
Call(name, argument, result, from) ==
    /\ op' = name
    /\ arg' = argument
    /\ ret' = result
    /\ origin' = from
    /\ files' = files
    /\ io' = <<>>

\* the application holds no result and may make any call
Idle == op = "none"

ToJson ==
    /\ Idle
    /\ \E chapters \in ChapterLists :
        Call("to_json", chapters, to_json(chapters), None)

FromJson ==
    /\ Idle
    /\ \E doc \in Documents :
        Call("from_json", doc, from_json(doc), None)

\* from_json of the document the last to_json wrote
FromJsonWritten ==
    /\ op = "to_json" /\ ret.ok
    /\ Call("from_json", ret.val, from_json(ret.val), Some(arg))

SerializeChapters ==
    /\ Idle
    /\ \E chapters \in ChapterLists :
        Call("serialize_chapters", chapters, serialize_chapters(chapters), None)

FromDescription ==
    /\ Idle
    /\ \E description \in Descriptions :
        Call("from_description", description, from_description(description), None)

ToDescription ==
    /\ Idle
    /\ \E chapters \in ChapterLists :
        Call("to_description", chapters, to_description(chapters), None)

\* from_description of the text the last to_description wrote
FromDescriptionWritten ==
    /\ op = "to_description" /\ ret.ok
    /\ Call("from_description", ret.val, from_description(ret.val), Some(arg))

\* the application drops the result of the last call
Discard ==
    /\ ~Idle
    /\ Call("none", <<>>, Ok(<<>>), None)

Next ==
    \/ ToJson
    \/ FromJson
    \/ FromJsonWritten
    \/ SerializeChapters
    \/ FromDescription
    \/ ToDescription
    \/ FromDescriptionWritten
    \/ Discard

Spec == Init /\ [][Next]_vars

(***************************************************************************)
(* The application on a directory with an MP3 file: it reads the chapters *)
(* of a file, or writes chapters to a copy of the source and may read     *)
(* them back from the destination.                                        *)
(***************************************************************************)
Mp3Init ==
    /\ op = "none"
    /\ arg = <<>>
    /\ ret = Ok(<<>>)
    /\ origin = None
    /\ files \in FileSystems
    /\ io = <<>>

\* the call of from_mp3_file: the tag of the file is read
Read(path, from) ==
    /\ op' = "from_mp3_file"
    /\ arg' = path
    /\ ret' = from_mp3_file(files, path)
    /\ origin' = from
    /\ files' = files
    /\ io' = <<"read">>

FromMp3File ==
    /\ Idle
    /\ \E path \in {SrcPath, DstPath} : Read(path, None)

\* the call of to_mp3_file, with what it returns and does to the files
Write(src, dst, chapters, done) ==
    /\ op' = "to_mp3_file"
    /\ arg' = [src |-> src, dst |-> dst, chapters |-> chapters]
    /\ ret' = done.ret
    /\ origin' = None
    /\ files' = done.files
    /\ io' = done.io

ToMp3File ==
    /\ Idle
    /\ \E dst \in {DstPath, NoDirPath}, chapters \in TaggedChapterLists,
          written \in BOOLEAN :
        Write(SrcPath, dst, chapters,
              to_mp3_file(files, SrcPath, dst, chapters, written))

\* from_mp3_file of the destination the last to_mp3_file wrote
FromMp3FileWritten ==
    /\ op = "to_mp3_file" /\ ret.ok
    /\ Read(arg.dst, Some(arg.chapters))

Mp3Next ==
    \/ FromMp3File
    \/ ToMp3File
    \/ FromMp3FileWritten

Mp3Spec == Mp3Init /\ [][Mp3Next]_vars

(***************************************************************************)
(* Properties of from_json and to_json                                     *)
(***************************************************************************)
\* the document has a chapters array, and its records
HasRecords(doc) == doc.t = "obj" /\ Has(doc, "chapters") /\ doc.f["chapters"].t = "arr"
RecordsOf(doc) == doc.f["chapters"].a

\* every field of the chapter has a place in the Podcast namespace schema
Representable(c) ==
    /\ c.remote_entity = None
    /\ IsSome(c.link) => Unwrap(c.link).title = None

\* C1: from_json of what to_json wrote for a list of representable chapters
\* succeeds and returns that list, in the same order.
JsonRoundTrip ==
    (/\ op = "from_json"
     /\ IsSome(origin)
     /\ \A i \in DOMAIN Unwrap(origin) : Representable(Unwrap(origin)[i]))
    => ret = Ok(Unwrap(origin))

\* the literal of ms milliseconds in seconds: the digits n of |ms| with k
\* decimals, without the zeros at the end of the decimals
RECURSIVE SecondsLiteral(_, _, _)
SecondsLiteral(neg, n, k) ==
    IF k > 0 /\ n % 10 = 0 THEN SecondsLiteral(neg, n \div 10, k - 1)
    ELSE JNum(neg, n, k)
LiteralOf(ms) == SecondsLiteral(ms < 0, IF ms < 0 THEN -ms ELSE ms, 3)

\* the start and the end of a chapter are written under these keys of obj
WrittenAs(chapter, obj, startKey, endKey) ==
    /\ Has(obj, startKey) /\ obj.f[startKey] = LiteralOf(chapter.start)
    /\ IsSome(chapter.end)
        => Has(obj, endKey) /\ obj.f[endKey] = LiteralOf(Unwrap(chapter.end))

TocPolarity ==
    /\ (op = "from_json" /\ ret.ok)
        => \A i \in DOMAIN ret.val :
              ret.val[i].hidden
              <=> (Has(RecordsOf(arg)[i], "toc")
                   /\ RecordsOf(arg)[i].f["toc"] = JBool(FALSE))
    /\ op = "to_json"
        => \A i \in DOMAIN arg :
              IF arg[i].hidden
              THEN Has(RecordsOf(ret.val)[i], "toc")
                   /\ RecordsOf(ret.val)[i].f["toc"] = JBool(FALSE)
              ELSE ~Has(RecordsOf(ret.val)[i], "toc")
TocPolarityWitness ==
    /\ op = "from_json" /\ ret.ok /\ origin = None
    /\ \E i \in DOMAIN ret.val :
        /\ Has(RecordsOf(arg)[i], "toc")
        /\ RecordsOf(arg)[i].f["toc"] = JBool(TRUE)
        /\ ~ret.val[i].hidden
    /\ \E i \in DOMAIN ret.val :
        /\ Has(RecordsOf(arg)[i], "toc")
        /\ RecordsOf(arg)[i].f["toc"] = JBool(FALSE)
        /\ ret.val[i].hidden

\* n * 10^(-k) seconds in milliseconds, truncated toward zero
ExactMillis(tok) ==
    IF tok.neg THEN -((tok.n * 1000) \div 10^tok.k) ELSE (tok.n * 1000) \div 10^tok.k

\* C4: from_json reads every startTime, and every endTime that is a number,
\* as its seconds times 1000 truncated toward zero: a fraction of a second
\* is kept to the millisecond.
SecondsToMillisExact ==
    (op = "from_json" /\ ret.ok)
    => \A i \in DOMAIN ret.val :
          /\ ret.val[i].start = ExactMillis(RecordsOf(arg)[i].f["startTime"])
          /\ (Has(RecordsOf(arg)[i], "endTime")
              /\ RecordsOf(arg)[i].f["endTime"].t = "num")
              => ret.val[i].end = Some(ExactMillis(RecordsOf(arg)[i].f["endTime"]))

\* a string that is not a URL
MalformedUrl(v) == v.t = "str" /\ UrlParse(v.s) = None
HasMalformed(record, key) == Has(record, key) /\ MalformedUrl(record.f[key])

\* the record without its img and its url where they are malformed URLs
WithoutMalformedUrls(record) ==
    JObj([key \in {k \in DOMAIN record.f :
                     ~(k \in {"img", "url"} /\ MalformedUrl(record.f[k]))}
            |-> record.f[key]])
WithoutMalformedUrlsIn(doc) ==
    JObj([key \in DOMAIN doc.f |->
            IF key = "chapters"
            THEN JArr([i \in DOMAIN RecordsOf(doc) |->
                         WithoutMalformedUrls(RecordsOf(doc)[i])])
            ELSE doc.f[key]])

\* C5: a record's img or url that is a string but no URL does not fail the
\* read: the chapter has no image (no link), and from_json returns what it
\* returns for the document without those keys, so that every other field
\* and every other chapter is as it is without them.
SoftDropOfUrls ==
    (op = "from_json" /\ HasRecords(arg))
    => /\ ret = from_json(WithoutMalformedUrlsIn(arg))
       /\ ret.ok
           => \A i \in DOMAIN ret.val :
                 /\ HasMalformed(RecordsOf(arg)[i], "img") => ret.val[i].image = None
                 /\ HasMalformed(RecordsOf(arg)[i], "url") => ret.val[i].link = None
SoftDropOfUrlsWitness ==
    /\ op = "from_json" /\ ret.ok /\ Len(ret.val) = 2
    /\ HasMalformed(RecordsOf(arg)[2], "img") /\ ret.val[2].image = None
    /\ HasMalformed(RecordsOf(arg)[2], "url") /\ ret.val[2].link = None
    /\ ret.val[2].start = 30500
    /\ ret.val[1].image = Some(ImageUrl(ExampleImage))
    /\ ret.val[1].link = Some(Link(ExampleUrl, None))

\* the document is no JSON object with a chapters array, or one of its
\* records has no startTime or one that is not a number
HardErrorIn(doc) ==
    \/ ~HasRecords(doc)
    \/ \E i \in DOMAIN RecordsOf(doc) :
          \/ ~Has(RecordsOf(doc)[i], "startTime")
          \/ RecordsOf(doc)[i].f["startTime"].t # "num"

\* C6: from_json of a document that is malformed, has no chapters array, or
\* has a record without a numeric startTime is an error, with no chapters.
HardErrors ==
    (op = "from_json" /\ HardErrorIn(arg)) => (~ret.ok /\ ret.val = <<>>)
HardErrorsWitness ==
    /\ op = "from_json" /\ ~ret.ok
    /\ HasRecords(arg) /\ Len(RecordsOf(arg)) = 2
    /\ DeserializePodcastNamespaceChapter(RecordsOf(arg)[1]).ok
    /\ Has(RecordsOf(arg)[2], "startTime")
    /\ RecordsOf(arg)[2].f["startTime"].t = "str"

(***************************************************************************)
(* Properties of from_description and to_description                       *)
(***************************************************************************)
\* the line matches the line pattern of the notation
Matches(line, tt) == IsSome(Captures(line, tt))

\* the first of the lines that matches one of the four notations, 0 if none
FirstMatching(lines) ==
    IF \E i \in DOMAIN lines : from_line(lines[i]) # None
    THEN CHOOSE i \in DOMAIN lines :
            /\ from_line(lines[i]) # None
            /\ \A j \in 1..(i - 1) : from_line(lines[j]) = None
    ELSE 0

\* the number of consecutive lines from line i on that match the notation
RECURSIVE RunLength(_, _, _)
RunLength(lines, i, tt) ==
    IF i <= Len(lines) /\ Matches(lines[i], tt)
    THEN 1 + RunLength(lines, i + 1, tt) ELSE 0

\* the length of the block of timestamped lines
BlockLength(lines) ==
    IF FirstMatching(lines) = 0 THEN 0
    ELSE RunLength(lines, FirstMatching(lines),
                   Unwrap(from_line(lines[FirstMatching(lines)])))

\* C7: from_description returns one chapter for each line of the maximal run
\* of consecutive trimmed lines that match the locked notation, the run that
\* starts at the first line matching any notation; no other line yields one.
SingleContiguousBlock ==
    op = "from_description"
    => (ret.ok /\ Len(ret.val) = BlockLength(TrimmedLines(arg)))

\* the number written with the two digits at s[i], s[i+1]
TwoDigits(s, i) == 10 * DigitValue[s[i]] + DigitValue[s[i + 1]]

\* hours * 3600 + minutes * 60 + seconds of the timestamp of the line, in
\* milliseconds
SecondsOfTimestamp(line, tt) ==
    LET o == IF HasParentheses(tt) THEN 1 ELSE 0
    IN  IF HasHours(tt)
        THEN 1000 * (3600 * TwoDigits(line, o + 1) + 60 * TwoDigits(line, o + 4)
                     + TwoDigits(line, o + 7))
        ELSE 1000 * (60 * TwoDigits(line, o + 1) + TwoDigits(line, o + 4))

\* s without the separator characters it starts with, but for its last
RECURSIVE AfterSeparator(_)
AfterSeparator(s) ==
    IF Len(s) > 1 /\ IsSeparator(Head(s)) THEN AfterSeparator(Tail(s)) ELSE s

\* the text of the line after its timestamp and separator, trimmed
TitleOfLine(line, tt) ==
    Trim(AfterSeparator(SubSeq(line, TimestampLen(line, tt) + 1, Len(line))))

\* C8: the j-th chapter from_description returns is that of the j-th line of
\* the block: its start is hours * 3600 + minutes * 60 + seconds of the
\* line's timestamp, its title the trimmed text after the timestamp and the
\* separator, it has no end, no image and no link, and is not hidden.
ChaptersOfLines ==
    (op = "from_description" /\ ret.ok)
    => \A j \in DOMAIN ret.val :
          LET lines == TrimmedLines(arg)
              first == FirstMatching(lines)
              line  == lines[first + j - 1]
              tt    == Unwrap(from_line(lines[first]))
          IN  /\ first > 0
              /\ ret.val[j] =
                    [start |-> SecondsOfTimestamp(line, tt),
                     title |-> Some(TitleOfLine(line, tt)),
                     end |-> None, image |-> None, link |-> None,
                     hidden |-> FALSE, remote_entity |-> None]
ChaptersOfLinesWitness ==
    /\ op = "from_description" /\ ret.ok /\ origin = None
    /\ Len(ret.val) = 3
    /\ ret.val[1].start = 0 /\ ret.val[1].title = Some(Intro)
    /\ ret.val[2].start = 304000 /\ ret.val[2].title = Some(<<"B">>)
    /\ ret.val[3].start = 598000

\* the characters of a timestamp, and the length of the run of them that s
\* starts with
TimestampChars == AsciiDigits \cup {":", "-", "(", ")"}
RECURSIVE TimestampRun(_)
TimestampRun(s) ==
    IF s # <<>> /\ Head(s) \in TimestampChars THEN 1 + TimestampRun(Tail(s)) ELSE 0

\* text is, for each of the chapters in their order, a timestamp, the
\* separator, the chapter's title and a newline
RECURSIVE IsLinePerChapter(_, _, _)
IsLinePerChapter(text, chapters, separator) ==
    IF chapters = <<>> THEN text = <<>>
    ELSE LET n    == TimestampRun(text)
             rest == separator \o Unwrap(Head(chapters).title) \o <<"\n">>
         IN  /\ n > 0
             /\ Len(text) >= n + Len(rest)
             /\ SubSeq(text, n + 1, n + Len(rest)) = rest
             /\ IsLinePerChapter(SubSeq(text, n + Len(rest) + 1, Len(text)),
                                 Tail(chapters), separator)

\* C9 as it stands: to_description writes one line per chapter, in input
\* order, of the form `<timestamp> - <title>` and a newline.
HyphenBetweenTimestampAndTitle ==
    (op = "to_description" /\ ret.ok)
    => IsLinePerChapter(ret.val, arg, <<" ", "-", " ">>)

\* C9, amended: to_description of chapters that all have a title writes, for
\* each chapter in input order, `<timestamp> <title>` and a newline: one
\* space, and no hyphen, between the timestamp and the title.
SpaceBetweenTimestampAndTitle ==
    (op = "to_description" /\ ret.ok) => IsLinePerChapter(ret.val, arg, <<" ">>)
SpaceBetweenTimestampAndTitleWitness ==
    /\ op = "to_description" /\ ret.ok
    /\ Len(arg) = 2 /\ arg[1].start > arg[2].start
    /\ arg[1].title = Some(Baboons) /\ arg[2].title = Some(Intro)

\* the timestamps of the lines of text, one for each of the chapters
RECURSIVE TimestampsOf(_, _)
TimestampsOf(text, chapters) ==
    IF chapters = <<>> THEN <<>>
    ELSE <<SubSeq(text, 1, TimestampRun(text))>>
         \o TimestampsOf(SubSeq(text, TimestampRun(text) + Len(LineSeparator)
                                      + Len(Unwrap(Head(chapters).title)) + 2,
                                Len(text)),
                         Tail(chapters))

\* the number of colons of a timestamp: 2 in HH:MM:SS, 1 in MM:SS
Colons(timestamp) == Cardinality({i \in DOMAIN timestamp : timestamp[i] = ":"})

\* C10: if a chapter starts at one hour or later, every line to_description
\* writes has an HH:MM:SS timestamp, and otherwise every line has an MM:SS
\* timestamp: the output never has both.
GlobalNotation ==
    (op = "to_description" /\ ret.ok)
    => \A i \in DOMAIN arg :
          /\ Head(TimestampsOf(ret.val, arg)[i]) # "("
          /\ Colons(TimestampsOf(ret.val, arg)[i])
               = IF \E j \in DOMAIN arg : arg[j].start >= 3600 * 1000 THEN 2 ELSE 1
GlobalNotationWitness ==
    /\ op = "to_description" /\ ret.ok
    /\ Len(arg) = 2 /\ arg[1].start = 0 /\ arg[2].start = 3600000
    /\ TimestampsOf(ret.val, arg)
         = << <<"0", "0", ":", "0", "0", ":", "0", "0">>,
              <<"0", "1", ":", "0", "0", ":", "0", "0">> >>

\* C11: to_description of a list with a chapter without a title, wherever
\* it is in the list, is an error, and no text is returned.
MissingTitleIsError ==
    (op = "to_description" /\ \E i \in DOMAIN arg : arg[i].title = None)
    => (~ret.ok /\ ret.val = <<>>)
MissingTitleIsErrorWitness ==
    /\ op = "to_description" /\ ~ret.ok
    /\ Len(arg) = 2 /\ IsSome(arg[1].title) /\ arg[2].title = None

\* the fields of a timestamp: what is between its colons
RECURSIVE FieldsOf(_)
FieldsOf(timestamp) ==
    IF \E i \in DOMAIN timestamp : timestamp[i] = ":"
    THEN LET colon == CHOOSE i \in DOMAIN timestamp :
                         /\ timestamp[i] = ":"
                         /\ \A j \in 1..(i - 1) : timestamp[j] # ":"
         IN  <<SubSeq(timestamp, 1, colon - 1)>>
             \o FieldsOf(SubSeq(timestamp, colon + 1, Len(timestamp)))
    ELSE <<timestamp>>

\* a field is two or more decimal digits, and the number it writes
IsPaddedNumber(field) ==
    Len(field) >= 2 /\ \A i \in DOMAIN field : field[i] \in AsciiDigits
RECURSIVE NumberOf(_)
NumberOf(field) ==
    IF field = <<>> THEN 0
    ELSE 10 * NumberOf(SubSeq(field, 1, Len(field) - 1)) + DigitValue[field[Len(field)]]

\* the seconds that the fields of a timestamp encode
SecondsOfFields(fields) ==
    IF Len(fields) = 3
    THEN 3600 * NumberOf(fields[1]) + 60 * NumberOf(fields[2]) + NumberOf(fields[3])
    ELSE 60 * NumberOf(fields[1]) + NumberOf(fields[2])

\* C19: for a chapter with start >= 0, the timestamp to_description writes
\* has two or three fields of at least two digits each, its minutes and its
\* seconds are in 0..59, and the fields encode the whole seconds of the
\* start: hours * 3600 + minutes * 60 + seconds, or minutes * 60 + seconds.
TimestampDerivation ==
    (op = "to_description" /\ ret.ok)
    => \A i \in DOMAIN arg :
          arg[i].start >= 0
          => LET fields == FieldsOf(TimestampsOf(ret.val, arg)[i])
             IN  /\ Len(fields) \in {2, 3}
                 /\ \A f \in DOMAIN fields : IsPaddedNumber(fields[f])
                 /\ NumberOf(fields[Len(fields)]) \in 0..59
                 /\ NumberOf(fields[Len(fields) - 1]) \in 0..59
                 /\ SecondsOfFields(fields) = arg[i].start \div 1000
TimestampDerivationWitness ==
    /\ op = "to_description" /\ ret.ok
    /\ Len(arg) = 1 /\ arg[1].start = 3661000
    /\ FieldsOf(TimestampsOf(ret.val, arg)[1])
         = << <<"0", "1">>, <<"0", "1">>, <<"0", "1">> >>

\* the notations whose line pattern the line matches
NotationsOf(line) ==
    {TimestampTypes[i] : i \in {j \in DOMAIN TimestampTypes :
                                   Matches(line, TimestampTypes[j])}}

\* C20: no line matches the line pattern of more than one of the four
\* notations, so from_line finds the one the line matches, whatever the
\* order in which it tries them.
NotationsExclusive ==
    op = "from_description"
    => \A i \in DOMAIN TrimmedLines(arg) :
          /\ Cardinality(NotationsOf(TrimmedLines(arg)[i])) <= 1
          /\ NotationsOf(TrimmedLines(arg)[i]) # {}
              => from_line(TrimmedLines(arg)[i])
                   = Some(CHOOSE tt \in NotationsOf(TrimmedLines(arg)[i]) : TRUE)
NotationsExclusiveWitness ==
    /\ op = "from_description"
    /\ Len(TrimmedLines(arg)) = 3
    /\ NotationsOf(TrimmedLines(arg)[1]) = {HhMmSs}
    /\ NotationsOf(TrimmedLines(arg)[2]) = {MmSs}
    /\ NotationsOf(TrimmedLines(arg)[3]) = {HhMmSsParentheses}

(***************************************************************************)
(* Properties of from_mp3_file and to_mp3_file                             *)
(***************************************************************************)
\* the chapter frames of the tag that the last from_mp3_file read
FramesRead == TagChapters(Unwrap(files[arg]).tag.frames)

\* the end that the claim gives the chapter of a frame
EndInstantOf(frame) ==
    IF frame.end_time = frame.start_time THEN None ELSE Some(frame.end_time)

\* C12: a chapter that from_mp3_file returns has the start offset of its
\* frame as start, and as end None when the end offset of the frame equals
\* its start offset and otherwise Some of the end offset in milliseconds;
\* every frame has such a chapter.
EndAsInstant ==
    (op = "from_mp3_file" /\ ret.ok) =>
        /\ \A j \in DOMAIN ret.val : \E i \in DOMAIN FramesRead :
              /\ ret.val[j].start = FramesRead[i].start_time
              /\ ret.val[j].end = EndInstantOf(FramesRead[i])
        /\ \A i \in DOMAIN FramesRead : \E j \in DOMAIN ret.val :
              /\ ret.val[j].start = FramesRead[i].start_time
              /\ ret.val[j].end = EndInstantOf(FramesRead[i])
\* a tag with a frame from 0 to 42000 ms and a frame from 0 to 0 was read
EndAsInstantWitness ==
    /\ op = "from_mp3_file" /\ ret.ok /\ Len(ret.val) = 2
    /\ \E j \in DOMAIN ret.val :
          ret.val[j].start = U32(0, 0) /\ ret.val[j].end = Some(U32(0, 42000))
    /\ \E j \in DOMAIN ret.val :
          ret.val[j].start = U32(0, 0) /\ ret.val[j].end = None

\* the chapters of the frames that were read, in the order of the frames
Decoded == [i \in DOMAIN FramesRead |-> ChapterFromFrame(FramesRead[i]).val]
Occurrences(seq, x) == Cardinality({i \in DOMAIN seq : seq[i] = x})
NotAfter(a, b) == a.hi < b.hi \/ (a.hi = b.hi /\ a.lo <= b.lo)

\* C13: the chapters that from_mp3_file returns are in ascending order of
\* start, whatever the order of the frames in the tag, and are a permutation
\* of the chapters of the frames.
SortedPermutation ==
    (op = "from_mp3_file" /\ ret.ok) =>
        /\ \A i, j \in DOMAIN ret.val :
              i < j => NotAfter(ret.val[i].start, ret.val[j].start)
        /\ Len(ret.val) = Len(Decoded)
        /\ \A i \in DOMAIN Decoded :
              Occurrences(ret.val, Decoded[i]) = Occurrences(Decoded, Decoded[i])
\* a tag with a frame at 42 s before a frame at 0 s was read
SortedPermutationWitness ==
    /\ op = "from_mp3_file" /\ ret.ok /\ Len(ret.val) = 2
    /\ FramesRead[1].start_time = U32(0, 42000)
    /\ FramesRead[2].start_time = U32(0, 0)
    /\ ret.val[1].start = U32(0, 0)

\* the chapter frames of the destination that the last to_mp3_file wrote
FramesWritten == TagChapters(Unwrap(files[arg.dst]).tag.frames)

\* the u32 is the number of milliseconds ms
IsMillis(u, ms) == ms >= 0 /\ u.hi = ms \div 65536 /\ u.lo = ms % 65536

\* C14: after to_mp3_file the chapter frame at position i of the tag has the
\* element id chp<i>, the start of chapters[i] in milliseconds as start
\* offset, and as end offset the end of chapters[i] in milliseconds, or with
\* no end the start offset; for every start and end.
FrameSynthesis ==
    (op = "to_mp3_file" /\ ret.ok) =>
        /\ Len(FramesWritten) = Len(arg.chapters)
        /\ \A i \in DOMAIN arg.chapters :
              /\ FramesWritten[i].element_id = "chp" \o ToString(i)
              /\ IsMillis(FramesWritten[i].start_time, arg.chapters[i].start)
              /\ IF IsSome(arg.chapters[i].end)
                 THEN IsMillis(FramesWritten[i].end_time, Unwrap(arg.chapters[i].end))
                 ELSE FramesWritten[i].end_time = FramesWritten[i].start_time

\* a list that the claim of the round trip is about: in ascending order of
\* start, each chapter with no more than start, end (not equal to start),
\* title and link
InAscendingOrder(chapters) ==
    \A i, j \in DOMAIN chapters : i < j => chapters[i].start <= chapters[j].start
CarriesOnlyTagFields(c) ==
    /\ c.image = None /\ ~c.hidden /\ c.remote_entity = None
    /\ c.end # Some(c.start)

\* the chapter read is equal to the chapter written
SameChapter(read, written) ==
    /\ IsMillis(read.start, written.start)
    /\ IF IsSome(written.end)
       THEN IsSome(read.end) /\ IsMillis(Unwrap(read.end), Unwrap(written.end))
       ELSE read.end = None
    /\ read.title = written.title
    /\ read.link = written.link
    /\ read.image = written.image
    /\ read.hidden = written.hidden
    /\ read.remote_entity = written.remote_entity

\* C15: from_mp3_file of the destination of a successful to_mp3_file returns
\* the list written, when that list is in ascending order of start and its
\* chapters carry only start, end, title and link; whether the source had
\* chapter frames or not.
TagRoundTrip ==
    (/\ op = "from_mp3_file" /\ IsSome(origin)
     /\ InAscendingOrder(Unwrap(origin))
     /\ \A i \in DOMAIN Unwrap(origin) : CarriesOnlyTagFields(Unwrap(origin)[i]))
    => /\ ret.ok
       /\ Len(ret.val) = Len(Unwrap(origin))
       /\ \A i \in DOMAIN ret.val : SameChapter(ret.val[i], Unwrap(origin)[i])

\* the content of the last sub-frame of the frame with one of the kinds, if any
LastOfKinds(frame, kinds) ==
    LET found == SelectSeq(frame.frames, LAMBDA f : f.content.kind \in kinds)
    IN  IF found = <<>> THEN None ELSE Some(found[Len(found)].content)

\* title and link of a chapter frame, as the claim gives them
TitleOfFrame(frame) ==
    LET text == LastOfKinds(frame, {"Text"})
    IN  IF IsSome(text) THEN Some(Unwrap(text).text) ELSE None
IsBlank(s) == \A i \in DOMAIN s : IsWhitespace(s[i])
\* TitleOf is what the title of a link is of a description that is not blank
LinkOfFrame(frame, TitleOf(_)) ==
    LET link == LastOfKinds(frame, {"Link", "ExtendedLink"})
    IN  IF link = None THEN None
        ELSE Some([url |-> UrlTable[Unwrap(link).link],
                   title |-> IF Unwrap(link).kind = "Link" THEN None
                             ELSE IF IsBlank(Unwrap(link).description) THEN None
                             ELSE Some(TitleOf(Unwrap(link).description))])
IsChapterOfFrame(chapter, frame, TitleOf(_)) ==
    /\ chapter.start = frame.start_time
    /\ chapter.title = TitleOfFrame(frame)
    /\ chapter.link = LinkOfFrame(frame, TitleOf)
SubFramesMapped(TitleOf(_)) ==
    (op = "from_mp3_file" /\ ret.ok) =>
        /\ \A i \in DOMAIN FramesRead : \E j \in DOMAIN ret.val :
              IsChapterOfFrame(ret.val[j], FramesRead[i], TitleOf)
        /\ \A j \in DOMAIN ret.val : \E i \in DOMAIN FramesRead :
              IsChapterOfFrame(ret.val[j], FramesRead[i], TitleOf)
DescriptionItself(description) == description

\* C16 as stated: the chapter of a frame has as title the text of the last
\* text sub-frame of the frame (None without one) and as link the link of the
\* last link or extended-link sub-frame: without title for a link, and for
\* an extended link with the description as title, None if it is blank.
SubFrameMapping == SubFramesMapped(DescriptionItself)

\* C16: the chapter of a frame has as title the text of the last text
\* sub-frame of the frame (None without one) and as link the link of the last
\* link or extended-link sub-frame: without title for a link, and for an
\* extended link with the description trimmed of surrounding whitespace as
\* title, None if the description is blank.
SubFrameMappingTrimmed == SubFramesMapped(Trim)
\* a frame with a link and then an extended link with a padded description
\* was read
SubFrameMappingTrimmedWitness ==
    /\ op = "from_mp3_file" /\ ret.ok /\ Len(ret.val) = 1
    /\ Len(FramesRead[1].frames) = 2
    /\ FramesRead[1].frames[1].content = PlainLink("https://example.com")
    /\ FramesRead[1].frames[2].content = ExtendedLink(ExampleUrl, Padded(Baboons))
    /\ ret.val[1].link = Some(Link(ExampleUrl, Some(Baboons)))

\* std::fs::copy of the call fails: there is no source or the directory of
\* the destination does not exist
CopyFails(directory, call) ==
    call.dst \notin DOMAIN directory \/ directory[call.src] = None

\* C17: to_mp3_file copies the source to the destination before it reads or
\* writes a tag; when the copy fails it returns an error, makes no tag
\* operation and leaves the files as they were; when the tag read or the tag
\* write fails it returns an error and the destination is the copy of the
\* source, not removed and not rolled back.
CopyFirstNoRollback ==
    [][op' = "to_mp3_file" =>
        /\ io' # <<>> /\ io'[1] = "copy"
        /\ \A k \in 2..Len(io') : io'[k] \in {"read", "write"}
        /\ IF CopyFails(files, arg')
           THEN ~ret'.ok /\ io' = <<"copy">> /\ files' = files
           ELSE ~ret'.ok =>
                  /\ Len(io') > 1
                  /\ files' = [files EXCEPT ![arg'.dst] = files[arg'.src]]]_vars
\* the write of the tag failed for a source with a tag, and the destination
\* is the copy of the source
CopyFirstNoRollbackWitness ==
    /\ op = "to_mp3_file" /\ ~ret.ok
    /\ io = <<"copy", "read", "write">>
    /\ IsSome(files[arg.dst]) /\ files[arg.dst] = files[arg.src]
    /\ Unwrap(files[arg.src]).tag.kind = "Tag"

\* the last from_mp3_file was of a file with a tag that can be read
TagWasRead ==
    /\ op = "from_mp3_file"
    /\ IsSome(files[arg]) /\ Unwrap(files[arg]).tag.kind = "Tag"

\* the frame has a link or extended-link sub-frame whose string is no URL
HasMalformedLink(frame) ==
    \E k \in DOMAIN frame.frames :
        /\ frame.frames[k].content.kind \in {"Link", "ExtendedLink"}
        /\ frame.frames[k].content.link \notin DOMAIN UrlTable

\* C18: when a link or extended-link sub-frame of a chapter frame of the tag
\* holds a string that is no URL, from_mp3_file returns an error and no
\* chapter, not those of the frames before it either.
MalformedLinkIsError ==
    (TagWasRead /\ \E i \in DOMAIN FramesRead : HasMalformedLink(FramesRead[i]))
    => (~ret.ok /\ ret.val = <<>>)
\* a tag was read whose first chapter frame has a title only and whose
\* second has a link that is no URL
MalformedLinkIsErrorWitness ==
    /\ TagWasRead /\ ~ret.ok
    /\ Len(FramesRead) = 2
    /\ ~HasMalformedLink(FramesRead[1]) /\ FramesRead[1].frames # <<>>
    /\ HasMalformedLink(FramesRead[2])

(***************************************************************************)
(* Properties of to_description followed by from_description               *)
(***************************************************************************)
\* a chapter that the claim of the round trip is about: only a start of
\* whole seconds from 0 to below 100 hours, and a title of one line that is
\* not empty, has no whitespace at its ends and begins with no separator
HundredHours == 100 * MsPerHour
CarriesOnlyStartAndTitle(c) ==
    /\ c.start >= 0 /\ c.start < HundredHours /\ c.start % MsPerSecond = 0
    /\ c.end = None /\ c.image = None /\ c.link = None
    /\ ~c.hidden /\ c.remote_entity = None
    /\ IsSome(c.title)
    /\ Unwrap(c.title) # <<>>
    /\ \A i \in DOMAIN Unwrap(c.title) : Unwrap(c.title)[i] # "\n"
    /\ ~IsWhitespace(Unwrap(c.title)[1])
    /\ ~IsWhitespace(Unwrap(c.title)[Len(Unwrap(c.title))])
    /\ Unwrap(c.title)[1] \notin {".", "!", "?", "-"}

\* C21: from_description of the text that to_description wrote returns the
\* chapters written, in their order, when each carries only a start of whole
\* seconds in [0, 100 hours) and a one-line title that is not empty, has no
\* leading or trailing whitespace and does not begin with ".", "!", "?" or
\* "-"; in either notation of the write.
DescriptionRoundTrip ==
    (/\ op = "from_description" /\ IsSome(origin)
     /\ \A i \in DOMAIN Unwrap(origin) : CarriesOnlyStartAndTitle(Unwrap(origin)[i]))
    => (ret.ok /\ ret.val = Unwrap(origin))
\* two chapters were written with hours, one before and one after the first
\* hour, the later one first, and read back
DescriptionRoundTripWitness ==
    /\ op = "from_description" /\ IsSome(origin) /\ ret.ok
    /\ Len(Unwrap(origin)) = 2
    /\ \A i \in DOMAIN Unwrap(origin) : CarriesOnlyStartAndTitle(Unwrap(origin)[i])
    /\ Unwrap(origin)[1].start = 3661000 /\ Unwrap(origin)[2].start = 304000
    /\ Unwrap(origin)[1].title = Some(TimeTitle)
    /\ from_line(Lines(arg)[1]) = Some(HhMmSs)

(***************************************************************************)
(* Properties of endTime and startTime in from_json                        *)
(***************************************************************************)
\* the record has the key with a value that is not a number
NotNumeric(record, key) == Has(record, key) /\ record.f[key].t # "num"

\* the record and the document without the endTime keys
WithoutEndTime(record) ==
    JObj([key \in DOMAIN record.f \ {"endTime"} |-> record.f[key]])
WithoutEndTimes(doc) ==
    [doc EXCEPT !.f = [doc.f EXCEPT !["chapters"] =
        JArr([i \in DOMAIN RecordsOf(doc) |-> WithoutEndTime(RecordsOf(doc)[i])])]]

\* the document is one of records, and is read without error once the
\* endTime keys are taken out of it
ReadableButForEndTimes(doc) ==
    /\ HasRecords(doc)
    /\ \A i \in DOMAIN RecordsOf(doc) : RecordsOf(doc)[i].t = "obj"
    /\ from_json(WithoutEndTimes(doc)).ok

\* C22: an endTime that is present and is not a number does not fail
\* from_json: the chapter of the record is returned with end None and its
\* other fields as they are read without the endTime; a startTime that is
\* not a number fails the whole read.
EndTimeAsymmetry ==
    /\ (/\ op = "from_json" /\ ReadableButForEndTimes(arg)
        /\ \A i \in DOMAIN RecordsOf(arg) :
              Has(RecordsOf(arg)[i], "endTime") => NotNumeric(RecordsOf(arg)[i], "endTime"))
       => (ret.ok /\ ret.val = from_json(WithoutEndTimes(arg)).val)
    /\ (/\ op = "from_json" /\ HasRecords(arg)
        /\ \E i \in DOMAIN RecordsOf(arg) :
              RecordsOf(arg)[i].t = "obj" /\ NotNumeric(RecordsOf(arg)[i], "startTime"))
       => ~ret.ok

====
